---- MODULE Spec2Model ----
(***************************************************************************)
(* Static RLN group manager (waku/v2/protocol/rln/group_manager/static),   *)
(* the Merkle root window it keeps in sync, the message validation         *)
(* pipeline that reads the window, the derivation of the RLN signal, the   *)
(* callers that use the tracker side by side, and the filter protocol      *)
(* (subscription on the light node, listener on the full node).            *)
(***************************************************************************)
EXTENDS Integers, Sequences, FiniteSets, TLC

\* ------------------------------------------------------------------ bounds
MaxGroup == 2          \* longest static group handed to the constructor
MaxLeaves == 6         \* the engine's tree holds at most this many leaves
NumCommitments == 2    \* distinct identity commitments of group members
MaxEpoch == 6          \* epochs are 0..MaxEpoch
MaxPayload == 2        \* longest message payload, in bytes
MaxTopic == 2          \* longest content topic, in bytes
MaxSubscribers == 2    \* most subscribers a full node registers
MaxIdLen == 1          \* longest request id, in bytes

\* ------------------------------------------------------- program constants
maxClockGapSeconds == 20
EPOCH_UNIT_SECONDS == 10
\* The gap with the division by the epoch unit left out.
maxEpochGap_Undivided == maxClockGapSeconds
maxEpochGap == maxClockGapSeconds \div EPOCH_UNIT_SECONDS
\* A window one entry larger.
acceptableRootWindowSize_Six == 5 + 1
acceptableRootWindowSize == 5

\* An error code that collides with invalidMessage.
validationError_AsInvalid == 1 + 1
validationError == 0
validMessage == 1
invalidMessage == 2
spamMessage == 3

\* ------------------------------------------------------------------ values
Commitments == 1..NumCommitments
NewMember == NumCommitments + 1       \* the commitment of a late arrival
Groups == UNION {[1..n -> Commitments] : n \in 0..MaxGroup}
Credentials == {[IDSecretHash |-> 10 + c, IDCommitment |-> c] : c \in Commitments}
Indices == 0..MaxGroup
NoCredential == [IDSecretHash |-> 0, IDCommitment |-> 0]
Epochs == 0..MaxEpoch
BogusRoot == -1                       \* a root no tree ever had
NoMessage == [epoch |-> 0, root |-> BogusRoot]
Bytes == 0..1
BytesUpTo(n) == UNION {[1..k -> Bytes] : k \in 0..n}
\* A nil *pb.WakuMessage.
NilMessage == [nil |-> TRUE, array |-> <<>>, len |-> 0, topic |-> <<>>]
\* The messages: Payload is the first len bytes of its backing array, whose
\* spare capacity, if any, has room for the longest topic and holds zeros.
WakuMessages ==
    {NilMessage} \cup
    {[nil |-> FALSE, array |-> p \o [k \in 1..spare |-> 0], len |-> Len(p), topic |-> t] :
        p \in BytesUpTo(MaxPayload), t \in BytesUpTo(MaxTopic), spare \in {0, 1, MaxTopic}}

\* ------------------------------------------------- filter protocol values

\* Strings of the filter protocol that are made from bytes (request ids)
\* are sequences of byte values; topics are plain strings.
IdBytes == {10, 171}
RequestIds == UNION {[1..n -> IdBytes] : n \in 1..MaxIdLen}
NoId == <<-1>>

\* hex.EncodeToString: two lower-case hex digits for every byte.
HexDigit(n) == IF n < 10 THEN 48 + n ELSE 87 + n

HexEncode(id) ==
    [k \in 1..(2 * Len(id)) |->
        IF k % 2 = 1 THEN HexDigit(id[(k + 1) \div 2] \div 16)
        ELSE HexDigit(id[k \div 2] % 16)]

\* string(id): the bytes themselves, one character for every byte.
BytesToString(id) == [k \in 1..Len(id) |-> id[k]]

ContentTopics == {"a", "b"}
PubsubTopics == {"p", "q"}
FilterTopics == {"", "p"}
\* The content filters of a request: none, one, the same one twice, and two
\* different ones.
ContentFilterLists == {<<>>, <<"a">>, <<"a", "a">>, <<"b", "a">>}
FilterRequests ==
    [Subscribe : BOOLEAN, Topic : FilterTopics, ContentFilters : ContentFilterLists]
NoRequest == [Subscribe |-> FALSE, Topic |-> "", ContentFilters |-> <<>>]
FilterRPCs == [RequestId : {HexEncode(id) : id \in RequestIds}, Request : FilterRequests]
\* The requests that reach the full node carry the id of one byte.
ArrivingRPCs == {rpc \in FilterRPCs : Len(rpc.RequestId) = 2}
NoRPC == [RequestId |-> NoId, Request |-> NoRequest]
Envelopes == [PubsubTopic : PubsubTopics, ContentTopic : ContentTopics]
NoEnvelope == [PubsubTopic |-> "", ContentTopic |-> ""]

\* ------------------------------------------------------ concurrent callers

Writers == {1, 2}
Handlers == {1, 2}
NoSubscriber == [peer |-> "", requestId |-> NoId, filter |-> NoRequest]
Readers == {1, 2}

VARIABLES
    pc,                  \* position of the manager's caller
    group,               \* gm.group
    identityCredential,  \* gm.identityCredential (NoCredential: nil)
    membershipIndex,     \* gm.membershipIndex (-1: nil)
    rlnSet,              \* gm.rln # nil  /\  gm.rootTracker # nil
    i,                   \* position of Start's range loop in gm.group
    pubkey,              \* argument of the InsertMember call in progress
    leaves,              \* the engine's tree: the commitments inserted so far
    validMerkleRoots,    \* the root window of the tracker, oldest first
    lastCall,            \* the manager operation called last
    ret,                 \* how that call returned
    argGroup,            \* the group argument of the constructor
    argCredential,       \* the credential argument of the constructor
    argIndex,            \* the index argument of the constructor
    callInserts,         \* commitments the engine accepted during the call
    callSyncs,           \* tracker Sync calls made during the call
    entryRoots,          \* the root window when the call was entered
    entryLeaves,         \* the engine's tree when the call was entered
    entryGroup,          \* gm.group when the call was entered
    fault,               \* the failure the call met: "none", "insert", "sync"
    observed,            \* the roots successful Syncs read, consecutive repeats dropped
    callTrace,           \* the engine inserts and tracker Syncs the call attempted, in order
    gotCredential,       \* what IdentityCredentials returned, if it was the last call
    gotIndex,            \* what MembershipIndex returned, if it was the last call
    vpc,                 \* position of the validation pipeline
    msg,                 \* epoch and root of the proof of the message being validated
    currentEpoch,        \* the local current epoch
    checks,              \* the checks evaluated for the message, in order
    verifyCalls,         \* calls of the engine's verify made for the message
    verifyOutcome,       \* what verify reported: "none", "error", "false", "true"
    rateOutcome,         \* what the rate check found: "none", "exceeded", "ok"
    result,              \* the classification of the message (-1: none yet)
    wm,                  \* the two messages whose signals are derived
    wm0,                 \* the two messages as they were handed over
    signal,              \* the signal derived from each message
    spc,                 \* "ready" or "done", for each message
    subscribers,         \* wf.subscribers of the full node
    lpc,                 \* FilterListener: "recv" at MsgC, "visit" inside handle
    envelope,            \* the envelope handle is working on
    snapLen,             \* length of wf.subscribers when the range loop began
    si,                  \* position of the range loop over the subscribers
    fi,                  \* position of the range loop over the content filters
    pushes,              \* the pushes written for the envelope, in order
    failedAt,            \* the subscriber at which a push of the envelope failed (0: none)
    handleRet,           \* what handle returned last: "none", "nil", "err"
    prevFailed,          \* whether a push of the envelope before this one failed
    subRet,              \* the id Subscribe returned to its caller
    subErr,              \* the error Subscribe returned: "nil", "err"
    sentRPC,             \* the FilterRPC Subscribe built for the peer
    delivered,           \* whether writing that FilterRPC succeeded
    filters,             \* the Filters map of the light node
    notifyId,            \* the RequestId of the push Notify handled last
    selected,            \* the keys that Notify selected by key
    notified,            \* the keys whose channel that Notify sent the message to
    answered,            \* the key of a stored filter the push answered (NoId: none)
    wpc,                 \* position of each concurrent caller of InsertMember
    rdpc,                \* position of each concurrent reader of the root window
    seen,                \* the window each reader's scan saw
    seenCommitted,       \* the window the last finished Sync had left when the reader scanned
    answer,              \* what ContainsRoot answered each reader
    writeHeld,           \* the caller holding the tracker's lock for writing (0: none)
    readHeld,            \* the readers holding the tracker's lock for reading
    committed,           \* the window as the last finished Sync left it
    hpc,                 \* position of each concurrent onRequest handler
    hlocal,              \* the wf.subscribers each handler read for its append
    hsub,                \* the subscriber each handler is appending
    started,             \* subscribe requests the handlers have taken up
    handled,             \* subscribe requests the handlers have finished
    visibleLen,          \* the length word of wf.subscribers in memory
    lobs                 \* the length and array FilterListener's range read last

gmVars == <<group, identityCredential, membershipIndex>>
ctorArgs == <<argGroup, argCredential, argIndex>>
entryVars == <<entryRoots, entryLeaves, entryGroup>>
valVars == <<vpc, msg, currentEpoch, checks, verifyCalls, verifyOutcome,
             rateOutcome, result>>
gotVars == <<gotCredential, gotIndex>>
mgrVars == <<pc, gmVars, rlnSet, i, pubkey, leaves, validMerkleRoots, lastCall,
             ret, ctorArgs, callInserts, callSyncs, entryVars, fault, observed,
             callTrace, gotVars>>
sigVars == <<wm, wm0, signal, spc>>
filterVars == <<subscribers, lpc, envelope, snapLen, si, fi, pushes, failedAt,
                handleRet, prevFailed>>
subVars == <<subRet, subErr, sentRPC, delivered, filters, notifyId, selected,
             notified, answered>>
concVars == <<wpc, rdpc, seen, seenCommitted, answer, writeHeld, readHeld,
              committed>>
raceVars == <<hpc, hlocal, hsub, started, handled, visibleLen, lobs>>
listenerVars == <<lpc, envelope, snapLen, si, fi, pushes, failedAt, handleRet,
                  prevFailed>>
auxVars == <<sigVars, filterVars, subVars, concVars, raceVars>>
\* the manager's variables without the engine's tree and the root window
mgrRest == <<pc, gmVars, rlnSet, i, pubkey, lastCall, ret, ctorArgs, callInserts,
             callSyncs, entryVars, fault, observed, callTrace, gotVars>>
vars == <<mgrVars, valVars, auxVars>>

\* ------------------------------------------------------------------ engine
\* The root of the engine's tree: a collision-free digest of the leaf sequence.
RECURSIVE GetMerkleRoot(_)
GetMerkleRoot(l) ==
    IF l = <<>> THEN 0
    ELSE GetMerkleRoot(SubSeq(l, 1, Len(l) - 1)) * (NumCommitments + 2) + l[Len(l)]

\* ----------------------------------------------------------------- tracker
Newest(w) == w[Len(w)]

\* MerkleRootTracker.Sync, the successful case: the engine's root is pushed
\* unless it is the newest entry already; the oldest entry is evicted when
\* the capacity is exceeded.
Sync(w, root) ==
    IF w # <<>> /\ Newest(w) = root THEN w
    ELSE LET pushed == Append(w, root)
         IN IF Len(pushed) > acceptableRootWindowSize THEN Tail(pushed) ELSE pushed

ContainsRoot(w, root) == \E k \in 1..Len(w) : w[k] = root

Observe(o, root) == IF o # <<>> /\ Newest(o) = root THEN o ELSE Append(o, root)

\* ------------------------------------------------------------- constructor
\* The check with the index ignored: the commitment is anywhere in the group.
CommitmentMatches_AnyIndex(g, cred, index) ==
    \E k \in 1..Len(g) : cred.IDCommitment = g[k]

CommitmentMatches(g, cred, index) == cred.IDCommitment = g[index + 1]

NewStaticGroupManager ==
    /\ pc = "new"
    /\ \E g \in Groups, cred \in Credentials, index \in Indices :
        /\ argGroup' = g
        /\ argCredential' = cred
        /\ argIndex' = index
        /\ lastCall' = "New"
        /\ IF index >= Len(g)
           THEN \* group[int(index)] is out of range: the runtime panics
                /\ pc' = "panic"
                /\ ret' = "panic"
                /\ UNCHANGED gmVars
           ELSE IF ~CommitmentMatches(g, cred, index)
           THEN /\ pc' = "failed"
                /\ ret' = "mismatch"
                /\ UNCHANGED gmVars
           ELSE /\ pc' = "idle"
                /\ ret' = "ok"
                /\ group' = g
                /\ identityCredential' = cred
                /\ membershipIndex' = index
    /\ UNCHANGED <<rlnSet, i, pubkey, leaves, validMerkleRoots, callInserts,
                   callSyncs, entryVars, fault, observed, callTrace, valVars,
                   gotVars, auxVars>>

\* ------------------------------------------------------------------- Start
\* Start without the Sync that precedes the loop.
StartCall_NoInitialSync ==
    /\ pc = "idle"
    /\ Len(leaves) + Len(group) <= MaxLeaves
    /\ IF group # <<>>
       THEN pc' = "start_insert" /\ i' = 1 /\ ret' = "running"
       ELSE pc' = "idle" /\ i' = 0 /\ ret' = "ok"
    /\ rlnSet' = TRUE
    /\ lastCall' = "Start"
    /\ fault' = "none"
    /\ callInserts' = <<>>
    /\ callSyncs' = 0
    /\ callTrace' = <<>>
    /\ entryRoots' = validMerkleRoots
    /\ entryLeaves' = leaves
    /\ entryGroup' = group
    /\ gotCredential' = NoCredential
    /\ gotIndex' = -1
    /\ UNCHANGED <<gmVars, ctorArgs, pubkey, leaves, validMerkleRoots, observed,
                   valVars, auxVars>>

StartCall ==
    /\ pc = "idle"
    /\ Len(leaves) + Len(group) <= MaxLeaves
    /\ pc' = "start_sync0"
    /\ rlnSet' = TRUE
    /\ lastCall' = "Start"
    /\ ret' = "running"
    /\ fault' = "none"
    /\ callInserts' = <<>>
    /\ callSyncs' = 0
    /\ callTrace' = <<>>
    /\ entryRoots' = validMerkleRoots
    /\ entryLeaves' = leaves
    /\ entryGroup' = group
    /\ i' = 0
    /\ gotCredential' = NoCredential
    /\ gotIndex' = -1
    /\ UNCHANGED <<gmVars, ctorArgs, pubkey, leaves, validMerkleRoots, observed,
                   valVars, auxVars>>

\* Start with a loop that stops one member early.
StartSyncOk_StopsEarly ==
    /\ pc \in {"start_sync0", "start_sync"}
    /\ validMerkleRoots' = Sync(validMerkleRoots, GetMerkleRoot(leaves))
    /\ observed' = Observe(observed, GetMerkleRoot(leaves))
    /\ callSyncs' = callSyncs + 1
    /\ callTrace' = Append(callTrace, "sync")
    /\ IF i < Len(group) - 1
       THEN /\ pc' = "start_insert"
            /\ i' = i + 1
            /\ UNCHANGED <<group, ret>>
       ELSE /\ pc' = "idle"
            /\ i' = 0
            /\ group' = <<>>
            /\ ret' = "ok"
    /\ UNCHANGED <<identityCredential, membershipIndex, ctorArgs, rlnSet, pubkey,
                   leaves, lastCall, callInserts, entryVars, fault, valVars, gotVars, auxVars>>

\* rootTracker.Sync() succeeds, before the loop or after the insert of
\* member i; the loop goes on to the next member, or ends, and then the
\* group is dropped and Start returns nil.
StartSyncOk ==
    /\ pc \in {"start_sync0", "start_sync"}
    /\ validMerkleRoots' = Sync(validMerkleRoots, GetMerkleRoot(leaves))
    /\ observed' = Observe(observed, GetMerkleRoot(leaves))
    /\ callSyncs' = callSyncs + 1
    /\ callTrace' = Append(callTrace, "sync")
    /\ IF i < Len(group)
       THEN /\ pc' = "start_insert"
            /\ i' = i + 1
            /\ UNCHANGED <<group, ret>>
       ELSE /\ pc' = "idle"
            /\ i' = 0
            /\ group' = <<>>
            /\ ret' = "ok"
    /\ UNCHANGED <<identityCredential, membershipIndex, ctorArgs, rlnSet, pubkey,
                   leaves, lastCall, callInserts, entryVars, fault, valVars, gotVars, auxVars>>

\* Start that drops the group also when a Sync fails.
StartSyncFail_DropsGroup ==
    /\ pc \in {"start_sync0", "start_sync"}
    /\ callSyncs' = callSyncs + 1
    /\ callTrace' = Append(callTrace, "sync")
    /\ fault' = "sync"
    /\ pc' = "idle"
    /\ ret' = "sync_err"
    /\ group' = <<>>
    /\ UNCHANGED <<identityCredential, membershipIndex, ctorArgs, rlnSet, i, pubkey,
                   leaves, validMerkleRoots, lastCall, callInserts, entryVars,
                   observed, valVars, gotVars, auxVars>>

StartSyncFail ==
    /\ pc \in {"start_sync0", "start_sync"}
    /\ callSyncs' = callSyncs + 1
    /\ callTrace' = Append(callTrace, "sync")
    /\ fault' = "sync"
    /\ pc' = "idle"
    /\ ret' = "sync_err"
    /\ UNCHANGED <<gmVars, ctorArgs, rlnSet, i, pubkey, leaves, validMerkleRoots,
                   lastCall, callInserts, entryVars, observed, valVars, gotVars, auxVars>>

StartInsertOk ==
    /\ pc = "start_insert"
    /\ leaves' = Append(leaves, group[i])
    /\ callInserts' = Append(callInserts, group[i])
    /\ callTrace' = Append(callTrace, "insert")
    /\ pc' = "start_sync"
    /\ UNCHANGED <<gmVars, ctorArgs, rlnSet, i, pubkey, validMerkleRoots, lastCall,
                   ret, callSyncs, entryVars, fault, observed, valVars, gotVars, auxVars>>

\* Start that skips a member whose insert failed instead of returning.
StartInsertFail_Continues ==
    /\ pc = "start_insert"
    /\ fault' = "insert"
    /\ callTrace' = Append(callTrace, "insert")
    /\ pc' = "start_sync"
    /\ UNCHANGED <<gmVars, ctorArgs, rlnSet, i, pubkey, leaves, validMerkleRoots,
                   lastCall, ret, callInserts, callSyncs, entryVars, observed,
                   valVars, gotVars, auxVars>>

StartInsertFail ==
    /\ pc = "start_insert"
    /\ fault' = "insert"
    /\ callTrace' = Append(callTrace, "insert")
    /\ pc' = "idle"
    /\ ret' = "insert_err"
    /\ UNCHANGED <<gmVars, ctorArgs, rlnSet, i, pubkey, leaves, validMerkleRoots,
                   lastCall, callInserts, callSyncs, entryVars, observed, valVars, gotVars, auxVars>>

\* ------------------------------------------------------------ InsertMember
InsertMemberCall ==
    /\ pc = "idle"
    /\ Len(leaves) < MaxLeaves
    /\ lastCall' = "InsertMember"
    /\ pubkey' = NewMember
    /\ fault' = "none"
    /\ callInserts' = <<>>
    /\ callSyncs' = 0
    /\ callTrace' = <<>>
    /\ entryRoots' = validMerkleRoots
    /\ entryLeaves' = leaves
    /\ entryGroup' = group
    /\ IF rlnSet
       THEN pc' = "im_insert" /\ ret' = "running"
       ELSE \* gm.rln is nil before the first Start: the call dereferences it
            pc' = "panic" /\ ret' = "panic"
    /\ gotCredential' = NoCredential
    /\ gotIndex' = -1
    /\ UNCHANGED <<gmVars, ctorArgs, rlnSet, i, leaves, validMerkleRoots,
                   observed, valVars, auxVars>>

\* InsertMember that returns nil after the insert, without the Sync.
InsertMemberInsertOk_NoSync ==
    /\ pc = "im_insert"
    /\ leaves' = Append(leaves, pubkey)
    /\ callInserts' = Append(callInserts, pubkey)
    /\ callTrace' = Append(callTrace, "insert")
    /\ pc' = "idle"
    /\ ret' = "ok"
    /\ UNCHANGED <<gmVars, ctorArgs, rlnSet, i, pubkey, validMerkleRoots, lastCall,
                   callSyncs, entryVars, fault, observed, valVars, gotVars, auxVars>>

InsertMemberInsertOk ==
    /\ pc = "im_insert"
    /\ leaves' = Append(leaves, pubkey)
    /\ callInserts' = Append(callInserts, pubkey)
    /\ callTrace' = Append(callTrace, "insert")
    /\ pc' = "im_sync"
    /\ UNCHANGED <<gmVars, ctorArgs, rlnSet, i, pubkey, validMerkleRoots, lastCall,
                   ret, callSyncs, entryVars, fault, observed, valVars, gotVars, auxVars>>

\* InsertMember that logs the failed insert and goes on to the Sync.
InsertMemberInsertFail_SyncsAnyway ==
    /\ pc = "im_insert"
    /\ fault' = "insert"
    /\ callTrace' = Append(callTrace, "insert")
    /\ pc' = "im_sync"
    /\ UNCHANGED <<gmVars, ctorArgs, rlnSet, i, pubkey, leaves, validMerkleRoots,
                   lastCall, ret, callInserts, callSyncs, entryVars, observed,
                   valVars, gotVars, auxVars>>

InsertMemberInsertFail ==
    /\ pc = "im_insert"
    /\ fault' = "insert"
    /\ callTrace' = Append(callTrace, "insert")
    /\ pc' = "idle"
    /\ ret' = "insert_err"
    /\ UNCHANGED <<gmVars, ctorArgs, rlnSet, i, pubkey, leaves, validMerkleRoots,
                   lastCall, callInserts, callSyncs, entryVars, observed, valVars, gotVars, auxVars>>

InsertMemberSyncOk ==
    /\ pc = "im_sync"
    /\ validMerkleRoots' = Sync(validMerkleRoots, GetMerkleRoot(leaves))
    /\ observed' = Observe(observed, GetMerkleRoot(leaves))
    /\ callSyncs' = callSyncs + 1
    /\ callTrace' = Append(callTrace, "sync")
    /\ pc' = "idle"
    /\ ret' = "ok"
    /\ UNCHANGED <<gmVars, ctorArgs, rlnSet, i, pubkey, leaves, lastCall,
                   callInserts, entryVars, fault, valVars, gotVars, auxVars>>

\* InsertMember that swallows the error of the Sync.
InsertMemberSyncFail_Swallowed ==
    /\ pc = "im_sync"
    /\ callSyncs' = callSyncs + 1
    /\ callTrace' = Append(callTrace, "sync")
    /\ fault' = "sync"
    /\ pc' = "idle"
    /\ ret' = "ok"
    /\ UNCHANGED <<gmVars, ctorArgs, rlnSet, i, pubkey, leaves, validMerkleRoots,
                   lastCall, callInserts, entryVars, observed, valVars, gotVars, auxVars>>

InsertMemberSyncFail ==
    /\ pc = "im_sync"
    /\ callSyncs' = callSyncs + 1
    /\ callTrace' = Append(callTrace, "sync")
    /\ fault' = "sync"
    /\ pc' = "idle"
    /\ ret' = "sync_err"
    /\ UNCHANGED <<gmVars, ctorArgs, rlnSet, i, pubkey, leaves, validMerkleRoots,
                   lastCall, callInserts, entryVars, observed, valVars, gotVars, auxVars>>

\* --------------------------------------------------- accessors and Stop
\* A call that touches neither engine nor tracker.
PlainCall(name) ==
    /\ pc = "idle"
    /\ lastCall' = name
    /\ fault' = "none"
    /\ callInserts' = <<>>
    /\ callSyncs' = 0
    /\ callTrace' = <<>>
    /\ entryRoots' = validMerkleRoots
    /\ entryLeaves' = leaves
    /\ entryGroup' = group
    /\ UNCHANGED <<pc, gmVars, ctorArgs, rlnSet, i, pubkey, leaves, validMerkleRoots,
                   observed, valVars, auxVars>>

IdentityCredentials ==
    /\ PlainCall("IdentityCredentials")
    /\ IF identityCredential = NoCredential
       THEN ret' = "not_configured" /\ gotCredential' = NoCredential
       ELSE ret' = "ok" /\ gotCredential' = identityCredential
    /\ gotIndex' = -1

\* The accessor with its nil check inverted.
MembershipIndex_NilCheckInverted ==
    /\ PlainCall("MembershipIndex")
    /\ IF membershipIndex # -1
       THEN ret' = "not_configured" /\ gotIndex' = 0
       ELSE ret' = "ok" /\ gotIndex' = membershipIndex
    /\ gotCredential' = NoCredential

MembershipIndex ==
    /\ PlainCall("MembershipIndex")
    /\ IF membershipIndex = -1
       THEN ret' = "not_configured" /\ gotIndex' = 0
       ELSE ret' = "ok" /\ gotIndex' = membershipIndex
    /\ gotCredential' = NoCredential

Stop ==
    /\ PlainCall("Stop")
    /\ ret' = "none"
    /\ gotCredential' = NoCredential
    /\ gotIndex' = -1

\* ----------------------------------------------------- validation pipeline
AbsDiff(a, b) == IF a >= b THEN a - b ELSE b - a

\* Every root the tree of the engine has had.
KnownRoots == {GetMerkleRoot(SubSeq(leaves, 1, k)) : k \in 0..Len(leaves)}

EpochInTolerance(m) == AbsDiff(currentEpoch, m.epoch) <= maxEpochGap

\* A message with a proof arrives; its proof names an epoch and a root.
ReceiveMessage ==
    /\ vpc \in {"idle", "done"}
    /\ \E e \in Epochs, r \in KnownRoots \cup {BogusRoot} :
        msg' = [epoch |-> e, root |-> r]
    /\ vpc' = "epoch"
    /\ checks' = <<>>
    /\ verifyCalls' = 0
    /\ verifyOutcome' = "none"
    /\ rateOutcome' = "none"
    /\ result' = -1
    /\ UNCHANGED <<mgrVars, auxVars, currentEpoch>>

\* The epoch step that marks the message Invalid and goes on to the next step.
CheckEpoch_NoReturn ==
    /\ vpc = "epoch"
    /\ checks' = Append(checks, "epoch")
    /\ vpc' = "root"
    /\ result' = IF EpochInTolerance(msg) THEN result ELSE invalidMessage
    /\ UNCHANGED <<mgrVars, auxVars, msg, currentEpoch, verifyCalls, verifyOutcome, rateOutcome>>

\* Step 2: the epoch tolerance.
CheckEpoch ==
    /\ vpc = "epoch"
    /\ checks' = Append(checks, "epoch")
    /\ IF EpochInTolerance(msg)
       THEN vpc' = "root" /\ UNCHANGED result
       ELSE vpc' = "done" /\ result' = invalidMessage
    /\ UNCHANGED <<mgrVars, auxVars, msg, currentEpoch, verifyCalls, verifyOutcome, rateOutcome>>

\* Step 3: the root acceptability.
CheckRoot ==
    /\ vpc = "root"
    /\ checks' = Append(checks, "root")
    /\ IF ContainsRoot(validMerkleRoots, msg.root)
       THEN vpc' = "verify" /\ UNCHANGED result
       ELSE vpc' = "done" /\ result' = invalidMessage
    /\ UNCHANGED <<mgrVars, auxVars, msg, currentEpoch, verifyCalls, verifyOutcome, rateOutcome>>

\* Step 4: the engine's verify, which reports an error, false or true.
VerifyProof ==
    /\ vpc = "verify"
    /\ checks' = Append(checks, "verify")
    /\ verifyCalls' = verifyCalls + 1
    /\ \E outcome \in {"error", "false", "true"} :
        /\ verifyOutcome' = outcome
        /\ IF outcome = "error" THEN vpc' = "done" /\ result' = validationError
           ELSE IF outcome = "false" THEN vpc' = "done" /\ result' = invalidMessage
           ELSE vpc' = "rate" /\ UNCHANGED result
    /\ UNCHANGED <<mgrVars, auxVars, msg, currentEpoch, rateOutcome>>

\* Steps 5 and 6: the rate check, then Valid.
CheckRate ==
    /\ vpc = "rate"
    /\ checks' = Append(checks, "rate")
    /\ \E outcome \in {"exceeded", "ok"} :
        /\ rateOutcome' = outcome
        /\ result' = IF outcome = "exceeded" THEN spamMessage ELSE validMessage
    /\ vpc' = "done"
    /\ UNCHANGED <<mgrVars, auxVars, msg, currentEpoch, verifyCalls, verifyOutcome>>

\* ------------------------------------------------------ signal derivation
Payload(m) == SubSeq(m.array, 1, m.len)

\* append(s, t...) on a slice with backing array a and length n: the bytes go
\* into the array when its capacity suffices, into a fresh array otherwise.
AppendBytes(a, n, t) ==
    IF n + Len(t) <= Len(a)
    THEN LET written == [k \in 1..Len(a) |->
                            IF k > n /\ k <= n + Len(t) THEN t[k - n] ELSE a[k]]
         IN [slice |-> SubSeq(written, 1, n + Len(t)), array |-> written]
    ELSE [slice |-> SubSeq(a, 1, n) \o t, array |-> a]

\* The derivation with the two fields in the wrong order.
toRLNSignal_TopicFirst(m) ==
    IF m.nil THEN [slice |-> <<>>, array |-> m.array]
    ELSE [slice |-> m.topic \o Payload(m), array |-> m.array]

\* The derivation that leaves the content topic out.
toRLNSignal_PayloadOnly(m) ==
    IF m.nil THEN [slice |-> <<>>, array |-> m.array]
    ELSE [slice |-> Payload(m), array |-> m.array]

toRLNSignal(m) ==
    IF m.nil THEN [slice |-> <<>>, array |-> m.array]
    ELSE AppendBytes(m.array, m.len, m.topic)

DeriveSignal ==
    \E k \in 1..2 :
        /\ spc[k] = "ready"
        /\ signal' = [signal EXCEPT ![k] = toRLNSignal(wm[k]).slice]
        /\ wm' = [wm EXCEPT ![k].array = toRLNSignal(wm[k]).array]
        /\ spc' = [spc EXCEPT ![k] = "done"]
        /\ UNCHANGED <<mgrVars, valVars, wm0, filterVars, subVars, concVars, raceVars>>

\* ------------------------------------------------------------ filter, full node

\* onRequest on the full node, for a request that was read and that
\* subscribes: it is appended to wf.subscribers. (A request that cannot be
\* read, or that unsubscribes, returns without a change.)
onRequest ==
    \E rpc \in ArrivingRPCs :
        /\ rpc.Request.Subscribe
        /\ Len(subscribers) < MaxSubscribers
        /\ subscribers' = Append(subscribers,
                [peer |-> "light", requestId |-> rpc.RequestId,
                 filter |-> rpc.Request])
        /\ UNCHANGED <<lpc, envelope, snapLen, si, fi, pushes, failedAt, handleRet,
                       prevFailed>>
        /\ UNCHANGED <<mgrVars, valVars, sigVars, subVars, concVars, raceVars>>

\* The pubsub topic test at the head of the loop over the subscribers.
TopicPasses(subscriber, env) ==
    ~(subscriber.filter.Topic # "" /\ subscriber.filter.Topic # env.PubsubTopic)

\* The content filters of a subscriber at which handle pushes the message:
\* those that name its content topic, if the pubsub topic passes.
MatchingFilters(subscriber, env) ==
    IF TopicPasses(subscriber, env)
    THEN {k \in 1..Len(subscriber.filter.ContentFilters) :
             subscriber.filter.ContentFilters[k] = env.ContentTopic}
    ELSE {}

\* The order in which the two nested range loops visit <<subscriber, filter>>.
VisitedBefore(a, b) == a[1] < b[1] \/ (a[1] = b[1] /\ a[2] < b[2])

\* The matches the loops over the first n subscribers have ahead of them
\* when they stand at filter f of subscriber s.
MatchesAfter(env, n, s, f) ==
    {p \in UNION {{<<t, k>> : k \in MatchingFilters(subscribers[t], env)} : t \in 1..n} :
        VisitedBefore(<<s, f>>, p)}

\* handle runs on from filter f of subscriber s, past the subscribers and
\* filters that do not match, to the next match, or to its return nil when
\* the range over the subscribers is used up.
ResumeHandle(env, n, s, f) ==
    LET rest == MatchesAfter(env, n, s, f)
    IN  IF rest = {}
        THEN lpc' = "recv" /\ handleRet' = "nil" /\ si' = 0 /\ fi' = 0
        ELSE LET nxt == CHOOSE p \in rest : \A q \in rest : p = q \/ VisitedBefore(p, q)
             IN  lpc' = "visit" /\ si' = nxt[1] /\ fi' = nxt[2] /\ UNCHANGED handleRet

\* for m := range wf.MsgC: the listener takes the next envelope and handle
\* ranges over wf.subscribers as it is now, up to the first match.
ListenerReceive ==
    \E env \in Envelopes :
        /\ lpc = "recv"
        /\ envelope' = env
        /\ snapLen' = Len(subscribers)
        /\ pushes' = <<>>
        /\ prevFailed' = (failedAt # 0)
        /\ failedAt' = 0
        /\ ResumeHandle(env, Len(subscribers), 0, 0)
        /\ UNCHANGED subscribers
        /\ UNCHANGED <<mgrVars, valVars, sigVars, subVars, concVars, raceVars>>

\* The stream opens and the push is written; handle goes on.
ListenerPush ==
    /\ lpc = "visit"
    /\ pushes' = Append(pushes, [sub |-> si, peer |-> subscribers[si].peer,
                                 RequestId |-> subscribers[si].requestId])
    /\ ResumeHandle(envelope, snapLen, si, fi)
    /\ UNCHANGED <<subscribers, envelope, snapLen, failedAt, prevFailed>>
    /\ UNCHANGED <<mgrVars, valVars, sigVars, subVars, concVars, raceVars>>

\* A failure at subscriber si after which handle goes on as after a push.
ListenerFail_Continues(r) ==
    /\ lpc = "visit"
    /\ failedAt' = si
    /\ ResumeHandle(envelope, snapLen, si, fi)
    /\ UNCHANGED <<subscribers, envelope, snapLen, pushes, prevFailed>>
    /\ UNCHANGED <<mgrVars, valVars, sigVars, subVars, concVars, raceVars>>

\* A failure at subscriber si: handle returns r and the listener is back at
\* MsgC.
ListenerFail(r) ==
    /\ lpc = "visit"
    /\ failedAt' = si
    /\ handleRet' = r
    /\ lpc' = "recv"
    /\ si' = 0
    /\ fi' = 0
    /\ UNCHANGED <<subscribers, envelope, snapLen, pushes, prevFailed>>
    /\ UNCHANGED <<mgrVars, valVars, sigVars, subVars, concVars, raceVars>>

\* NewStream fails: return err.
ListenerStreamFail == ListenerFail("err")

\* WriteMsg fails: return nil.
ListenerWriteFail == ListenerFail("nil")

\* ----------------------------------------------------------- filter, light node

\* Subscribe: without a peer it returns ("", nil), without a connection
\* ("", err); otherwise it builds the FilterRPC with the hex encoding of a
\* fresh id, writes it (the write's error is dropped) and returns string(id).
Subscribe ==
    \E request \in {r \in FilterRequests : r.Subscribe}, id \in RequestIds,
       outcome \in {"no peer", "no connection", "write failed", "written"} :
        /\ IF outcome \in {"write failed", "written"}
           THEN /\ sentRPC' = [RequestId |-> HexEncode(id), Request |-> request]
                /\ delivered' = (outcome = "written")
                /\ subRet' = BytesToString(id)
                /\ subErr' = "nil"
           ELSE /\ sentRPC' = NoRPC
                /\ delivered' = FALSE
                /\ subRet' = <<>>
                /\ subErr' = IF outcome = "no connection" THEN "err" ELSE "nil"
        /\ notifyId' = NoId
        /\ selected' = {}
        /\ notified' = {}
        /\ answered' = NoId
        /\ UNCHANGED filters
        /\ UNCHANGED <<mgrVars, valVars, sigVars, filterVars, concVars, raceVars>>

\* The caller of Subscribe stores the filter under the id it was given; the
\* light node keeps the filter of one subscription.
StoreFilter ==
    /\ subRet # <<>>
    /\ DOMAIN filters \subseteq {subRet}
    /\ filters' = [key \in {subRet} |-> sentRPC.Request.ContentFilters]
    /\ UNCHANGED <<subRet, subErr, sentRPC, delivered, notifyId, selected, notified,
                   answered>>
    /\ UNCHANGED <<mgrVars, valVars, sigVars, filterVars, concVars, raceVars>>

\* Filters.Notify: the keys selected because they equal the request id, and
\* the keys selected because a content filter names the content topic.
Notify(f, contentTopic, requestId) ==
    LET byKey == {key \in DOMAIN f : requestId # <<>> /\ requestId = key}
    IN  [byKey |-> byKey,
         byContent |-> {key \in DOMAIN f \ byKey :
                           \E k \in 1..Len(f[key]) : f[key][k] = contentTopic}]

\* onRequest on the light node: the full node pushes a message under the
\* RequestId the subscription was sent with, and the push handler hands it
\* to Notify.
onRequestPush ==
    \E contentTopic \in ContentTopics :
        /\ sentRPC # NoRPC
        /\ delivered
        /\ notifyId' = sentRPC.RequestId
        /\ selected' = Notify(filters, contentTopic, sentRPC.RequestId).byKey
        /\ notified' = Notify(filters, contentTopic, sentRPC.RequestId).byKey
                         \cup Notify(filters, contentTopic, sentRPC.RequestId).byContent
        /\ answered' = IF subRet \in DOMAIN filters THEN subRet ELSE NoId
        /\ UNCHANGED <<subRet, subErr, sentRPC, delivered, filters>>
        /\ UNCHANGED <<mgrVars, valVars, sigVars, filterVars, concVars, raceVars>>

\* ------------------------------------------- concurrent callers of the tracker

\* The tracker's lock taken for writing without regard to who holds it.
CanLock_NoExclusion == TRUE

\* The tracker's lock can be taken for writing: nobody holds it.
CanLock == writeHeld = 0 /\ readHeld = {}

\* The tracker's lock can be taken for reading: nobody holds it for writing.
CanRLock == writeHeld = 0

\* A caller is inside Sync, between taking the lock and giving it back.
InSync(w) == wpc[w] \in {"locked", "pushed", "leaving"}

\* A reader is inside ContainsRoot, between taking the lock and giving it back.
Reading(r) == rdpc[r] \in {"locked", "scanned"}

\* InsertMember, first half: the engine takes the member.
ConcInsertMember(w) ==
    /\ wpc[w] = "idle"
    /\ Len(leaves) < MaxLeaves
    /\ leaves' = Append(leaves, NewMember)
    /\ wpc' = [wpc EXCEPT ![w] = "inserted"]
    /\ UNCHANGED <<validMerkleRoots, rdpc, seen, seenCommitted, answer, writeHeld,
                   readHeld, committed>>
    /\ UNCHANGED <<mgrRest, valVars, sigVars, filterVars, subVars, raceVars>>

\* InsertMember, second half: it calls Sync, which waits for the lock.
TrackerLock(w) ==
    /\ wpc[w] = "inserted"
    /\ CanLock
    /\ writeHeld' = w
    /\ wpc' = [wpc EXCEPT ![w] = "locked"]
    /\ UNCHANGED <<leaves, validMerkleRoots, rdpc, seen, seenCommitted, answer,
                   readHeld, committed>>
    /\ UNCHANGED <<mgrRest, valVars, sigVars, filterVars, subVars, raceVars>>

\* Sync reads the engine's root and, unless it is the newest entry already,
\* writes it behind the newest entry.
TrackerPush(w) ==
    /\ wpc[w] = "locked"
    /\ IF validMerkleRoots # <<>> /\ Newest(validMerkleRoots) = GetMerkleRoot(leaves)
       THEN /\ wpc' = [wpc EXCEPT ![w] = "leaving"]
            /\ UNCHANGED validMerkleRoots
       ELSE /\ wpc' = [wpc EXCEPT ![w] = "pushed"]
            /\ validMerkleRoots' = Append(validMerkleRoots, GetMerkleRoot(leaves))
    /\ UNCHANGED <<leaves, rdpc, seen, seenCommitted, answer, writeHeld, readHeld,
                   committed>>
    /\ UNCHANGED <<mgrRest, valVars, sigVars, filterVars, subVars, raceVars>>

\* The engine cannot give its root: Sync leaves the window alone.
TrackerRootFail(w) ==
    /\ wpc[w] = "locked"
    /\ wpc' = [wpc EXCEPT ![w] = "leaving"]
    /\ UNCHANGED <<leaves, validMerkleRoots, rdpc, seen, seenCommitted, answer,
                   writeHeld, readHeld, committed>>
    /\ UNCHANGED <<mgrRest, valVars, sigVars, filterVars, subVars, raceVars>>

\* Sync drops the oldest entry if the window has outgrown its capacity.
TrackerTrim(w) ==
    /\ wpc[w] = "pushed"
    /\ validMerkleRoots' = IF Len(validMerkleRoots) > acceptableRootWindowSize
                           THEN Tail(validMerkleRoots) ELSE validMerkleRoots
    /\ wpc' = [wpc EXCEPT ![w] = "leaving"]
    /\ UNCHANGED <<leaves, rdpc, seen, seenCommitted, answer, writeHeld, readHeld,
                   committed>>
    /\ UNCHANGED <<mgrRest, valVars, sigVars, filterVars, subVars, raceVars>>

\* Sync gives the lock back and InsertMember returns.
TrackerUnlock(w) ==
    /\ wpc[w] = "leaving"
    /\ writeHeld' = 0
    /\ committed' = validMerkleRoots
    /\ wpc' = [wpc EXCEPT ![w] = "idle"]
    /\ UNCHANGED <<leaves, validMerkleRoots, rdpc, seen, seenCommitted, answer,
                   readHeld>>
    /\ UNCHANGED <<mgrRest, valVars, sigVars, filterVars, subVars, raceVars>>

\* ContainsRoot waits for the lock, shared with the other readers.
ReaderRLock(r) ==
    /\ rdpc[r] = "idle"
    /\ CanRLock
    /\ readHeld' = readHeld \cup {r}
    /\ rdpc' = [rdpc EXCEPT ![r] = "locked"]
    /\ UNCHANGED <<leaves, validMerkleRoots, wpc, seen, seenCommitted, answer,
                   writeHeld, committed>>
    /\ UNCHANGED <<mgrRest, valVars, sigVars, filterVars, subVars, raceVars>>

\* ContainsRoot scans the window for the root of a proof: the engine's
\* current root, or a root no tree ever had.
ReaderContainsRoot(r) ==
    \E root \in {GetMerkleRoot(leaves), BogusRoot} :
        /\ rdpc[r] = "locked"
        /\ seen' = [seen EXCEPT ![r] = validMerkleRoots]
        /\ seenCommitted' = [seenCommitted EXCEPT ![r] = committed]
        /\ answer' = [answer EXCEPT ![r] = ContainsRoot(validMerkleRoots, root)]
        /\ rdpc' = [rdpc EXCEPT ![r] = "scanned"]
        /\ UNCHANGED <<leaves, validMerkleRoots, wpc, writeHeld, readHeld, committed>>
        /\ UNCHANGED <<mgrRest, valVars, sigVars, filterVars, subVars, raceVars>>

\* ContainsRoot gives the lock back and returns.
ReaderRUnlock(r) ==
    /\ rdpc[r] = "scanned"
    /\ readHeld' = readHeld \ {r}
    /\ rdpc' = [rdpc EXCEPT ![r] = "idle"]
    /\ UNCHANGED <<leaves, validMerkleRoots, wpc, seen, seenCommitted, answer,
                   writeHeld, committed>>
    /\ UNCHANGED <<mgrRest, valVars, sigVars, filterVars, subVars, raceVars>>

\* --------------------------------------- filter, full node, handlers in parallel

\* onRequest runs once for every stream, each run on its own, next to the
\* listener that NewWakuFilter started; nothing orders their uses of
\* wf.subscribers. The append of one run is three steps: it reads
\* wf.subscribers, and it writes the array and the length of the appended
\* slice back, in either order.
RaceRead(h) ==
    \E rpc \in ArrivingRPCs :
        /\ rpc.Request.Subscribe
        /\ hpc[h] = "idle"
        /\ started < MaxSubscribers
        /\ started' = started + 1
        /\ hlocal' = [hlocal EXCEPT ![h] = subscribers]
        /\ hsub' = [hsub EXCEPT ![h] =
                [peer |-> "light", requestId |-> rpc.RequestId, filter |-> rpc.Request]]
        /\ hpc' = [hpc EXCEPT ![h] = "read"]
        /\ UNCHANGED <<subscribers, handled, visibleLen, lobs>>
        /\ UNCHANGED <<mgrVars, valVars, sigVars, listenerVars, subVars, concVars>>

\* The run is over once both words are written.
RaceDone(h, word) ==
    IF hpc[h] = "read"
    THEN /\ hpc' = [hpc EXCEPT ![h] = word]
         /\ UNCHANGED <<hlocal, hsub, handled>>
    ELSE /\ hpc' = [hpc EXCEPT ![h] = "idle"]
         /\ hlocal' = [hlocal EXCEPT ![h] = <<>>]
         /\ hsub' = [hsub EXCEPT ![h] = NoSubscriber]
         /\ handled' = handled + 1

RaceWriteArray(h) ==
    /\ hpc[h] \in {"read", "len"}
    /\ subscribers' = Append(hlocal[h], hsub[h])
    /\ RaceDone(h, "array")
    /\ UNCHANGED <<started, visibleLen, lobs>>
    /\ UNCHANGED <<mgrVars, valVars, sigVars, listenerVars, subVars, concVars>>

RaceWriteLen(h) ==
    /\ hpc[h] \in {"read", "array"}
    /\ visibleLen' = Len(hlocal[h]) + 1
    /\ RaceDone(h, "len")
    /\ UNCHANGED <<subscribers, started, lobs>>
    /\ UNCHANGED <<mgrVars, valVars, sigVars, listenerVars, subVars, concVars>>

\* for _, subscriber := range wf.subscribers: the listener reads the length
\* and the array as they are in memory.
RaceListenerRange ==
    /\ lobs' = [len |-> visibleLen, arr |-> subscribers]
    /\ lobs' # lobs
    /\ UNCHANGED <<subscribers, hpc, hlocal, hsub, started, handled, visibleLen>>
    /\ UNCHANGED <<mgrVars, valVars, sigVars, listenerVars, subVars, concVars>>

\* ----------------------------------------------------------- specification
\* Nothing of the other components has run.
SignalIdle ==
    /\ wm = [k \in 1..2 |-> NilMessage]
    /\ wm0 = wm
    /\ signal = [k \in 1..2 |-> <<>>]
    /\ spc = [k \in 1..2 |-> "ready"]

FilterIdle ==
    /\ subscribers = <<>>
    /\ lpc = "recv"
    /\ envelope = NoEnvelope
    /\ snapLen = 0
    /\ si = 0
    /\ fi = 0
    /\ pushes = <<>>
    /\ failedAt = 0
    /\ handleRet = "none"
    /\ prevFailed = FALSE

SubscribeIdle ==
    /\ subRet = <<>>
    /\ subErr = "nil"
    /\ sentRPC = NoRPC
    /\ delivered = FALSE
    /\ filters = <<>>
    /\ notifyId = NoId
    /\ selected = {}
    /\ notified = {}
    /\ answered = NoId

ConcurrentIdle ==
    /\ wpc = [w \in Writers |-> "idle"]
    /\ rdpc = [r \in Readers |-> "idle"]
    /\ seen = [r \in Readers |-> <<>>]
    /\ seenCommitted = [r \in Readers |-> <<>>]
    /\ answer = [r \in Readers |-> FALSE]
    /\ writeHeld = 0
    /\ readHeld = {}
    /\ committed = <<>>

RaceIdle ==
    /\ hpc = [h \in Handlers |-> "idle"]
    /\ hlocal = [h \in Handlers |-> <<>>]
    /\ hsub = [h \in Handlers |-> NoSubscriber]
    /\ started = 0
    /\ handled = 0
    /\ visibleLen = 0
    /\ lobs = [len |-> 0, arr |-> <<>>]

AuxIdle == SignalIdle /\ FilterIdle /\ SubscribeIdle /\ ConcurrentIdle /\ RaceIdle

ValidationIdle ==
    /\ vpc = "idle"
    /\ msg = NoMessage
    /\ currentEpoch = 0
    /\ checks = <<>>
    /\ verifyCalls = 0
    /\ verifyOutcome = "none"
    /\ rateOutcome = "none"
    /\ result = -1

ManagerIdle ==
    /\ pc = "new"
    /\ group = <<>>
    /\ identityCredential = NoCredential
    /\ membershipIndex = -1
    /\ rlnSet = FALSE
    /\ i = 0
    /\ pubkey = 0
    /\ leaves = <<>>
    /\ validMerkleRoots = <<>>
    /\ lastCall = "none"
    /\ ret = "none"
    /\ argGroup = <<>>
    /\ argCredential = NoCredential
    /\ argIndex = 0
    /\ callInserts = <<>>
    /\ callSyncs = 0
    /\ entryRoots = <<>>
    /\ entryLeaves = <<>>
    /\ entryGroup = <<>>
    /\ fault = "none"
    /\ observed = <<>>
    /\ callTrace = <<>>
    /\ gotCredential = NoCredential
    /\ gotIndex = -1

Init ==
    /\ ManagerIdle
    /\ ValidationIdle
    /\ AuxIdle

Next ==
    \/ NewStaticGroupManager
    \/ StartCall
    \/ StartSyncOk
    \/ StartSyncFail
    \/ StartInsertOk
    \/ StartInsertFail
    \/ InsertMemberCall
    \/ InsertMemberInsertOk
    \/ InsertMemberInsertFail
    \/ InsertMemberSyncOk
    \/ InsertMemberSyncFail
    \/ IdentityCredentials
    \/ MembershipIndex
    \/ Stop

Spec == Init /\ [][Next]_vars

\* The window after a Sync following every change of a tree with leaves l.
RECURSIVE SyncedWindow(_)
SyncedWindow(l) ==
    IF l = <<>> THEN Sync(<<>>, GetMerkleRoot(l))
    ELSE Sync(SyncedWindow(SubSeq(l, 1, Len(l) - 1)), GetMerkleRoot(l))

\* The validation pipeline runs against a manager that was built for the
\* group <<1, 2>> as its member at index 1, was started, and then inserted
\* n late members, every insert and sync having succeeded.
InitValidate ==
    /\ MaxLeaves >= 2
    /\ \E n \in 0..(MaxLeaves - 2) :
        /\ leaves = <<1, 2>> \o [k \in 1..n |-> NewMember]
        /\ validMerkleRoots = SyncedWindow(leaves)
        /\ observed = [k \in 1..(Len(leaves) + 1) |-> GetMerkleRoot(SubSeq(leaves, 1, k - 1))]
        /\ lastCall = IF n = 0 THEN "Start" ELSE "InsertMember"
        /\ pubkey = IF n = 0 THEN 0 ELSE NewMember
        /\ callInserts = IF n = 0 THEN <<1, 2>> ELSE <<NewMember>>
        /\ callSyncs = IF n = 0 THEN 3 ELSE 1
        /\ callTrace = IF n = 0 THEN <<"sync", "insert", "sync", "insert", "sync">>
                       ELSE <<"insert", "sync">>
        /\ entryLeaves = IF n = 0 THEN <<>> ELSE SubSeq(leaves, 1, Len(leaves) - 1)
        /\ entryRoots = IF n = 0 THEN <<>> ELSE SyncedWindow(entryLeaves)
        /\ entryGroup = IF n = 0 THEN <<1, 2>> ELSE <<>>
    /\ pc = "idle"
    /\ group = <<>>
    /\ identityCredential = [IDSecretHash |-> 12, IDCommitment |-> 2]
    /\ membershipIndex = 1
    /\ rlnSet = TRUE
    /\ i = 0
    /\ ret = "ok"
    /\ argGroup = <<1, 2>>
    /\ argCredential = identityCredential
    /\ argIndex = 1
    /\ fault = "none"
    /\ gotCredential = NoCredential
    /\ gotIndex = -1
    /\ AuxIdle
    /\ vpc = "idle"
    /\ msg = NoMessage
    /\ currentEpoch \in Epochs
    /\ checks = <<>>
    /\ verifyCalls = 0
    /\ verifyOutcome = "none"
    /\ rateOutcome = "none"
    /\ result = -1

NextValidate ==
    \/ ReceiveMessage
    \/ CheckEpoch
    \/ CheckRoot
    \/ VerifyProof
    \/ CheckRate

SpecValidate == InitValidate /\ [][NextValidate]_vars

\* Two messages are handed over, and the signal of each is derived once.
InitSignal ==
    /\ ManagerIdle
    /\ ValidationIdle
    /\ wm \in [1..2 -> WakuMessages]
    /\ wm0 = wm
    /\ signal = [k \in 1..2 |-> <<>>]
    /\ spc = [k \in 1..2 |-> "ready"]
    /\ FilterIdle
    /\ SubscribeIdle
    /\ ConcurrentIdle
    /\ RaceIdle

NextSignal == DeriveSignal

SpecSignal == InitSignal /\ [][NextSignal]_vars

\* The full node: subscribe requests arrive while the listener handles the
\* envelopes of MsgC.
InitFilter == ManagerIdle /\ ValidationIdle /\ AuxIdle

NextFilter ==
    \/ onRequest
    \/ ListenerReceive
    \/ ListenerPush
    \/ ListenerStreamFail
    \/ ListenerWriteFail

SpecFilter == InitFilter /\ [][NextFilter]_vars

\* The light node: it subscribes, stores the filter, and gets pushes.
InitSubscribe == ManagerIdle /\ ValidationIdle /\ AuxIdle

NextSubscribe ==
    \/ Subscribe
    \/ StoreFilter
    \/ onRequestPush

SpecSubscribe == InitSubscribe /\ [][NextSubscribe]_vars

\* Callers of InsertMember and readers of the window run side by side on
\* a manager that was built for the group <<1, 2>> and started.
InitConcurrent ==
    /\ leaves = <<1, 2>>
    /\ validMerkleRoots = SyncedWindow(leaves)
    /\ observed = validMerkleRoots
    /\ lastCall = "Start"
    /\ pubkey = 0
    /\ callInserts = <<1, 2>>
    /\ callSyncs = 3
    /\ callTrace = <<"sync", "insert", "sync", "insert", "sync">>
    /\ entryLeaves = <<>>
    /\ entryRoots = <<>>
    /\ entryGroup = <<1, 2>>
    /\ pc = "idle"
    /\ group = <<>>
    /\ identityCredential = [IDSecretHash |-> 12, IDCommitment |-> 2]
    /\ membershipIndex = 1
    /\ rlnSet = TRUE
    /\ i = 0
    /\ ret = "ok"
    /\ argGroup = <<1, 2>>
    /\ argCredential = identityCredential
    /\ argIndex = 1
    /\ fault = "none"
    /\ gotCredential = NoCredential
    /\ gotIndex = -1
    /\ ValidationIdle
    /\ SignalIdle
    /\ FilterIdle
    /\ SubscribeIdle
    /\ wpc = [w \in Writers |-> "idle"]
    /\ rdpc = [r \in Readers |-> "idle"]
    /\ seen = [r \in Readers |-> <<>>]
    /\ seenCommitted = [r \in Readers |-> <<>>]
    /\ answer = [r \in Readers |-> FALSE]
    /\ writeHeld = 0
    /\ readHeld = {}
    /\ committed = validMerkleRoots
    /\ RaceIdle

NextConcurrent ==
    \/ \E w \in Writers : ConcInsertMember(w)
    \/ \E w \in Writers : TrackerLock(w)
    \/ \E w \in Writers : TrackerPush(w)
    \/ \E w \in Writers : TrackerRootFail(w)
    \/ \E w \in Writers : TrackerTrim(w)
    \/ \E w \in Writers : TrackerUnlock(w)
    \/ \E r \in Readers : ReaderRLock(r)
    \/ \E r \in Readers : ReaderContainsRoot(r)
    \/ \E r \in Readers : ReaderRUnlock(r)

SpecConcurrent == InitConcurrent /\ [][NextConcurrent]_vars

\* The full node with its onRequest handlers and its listener side by side.
InitFilterRace == ManagerIdle /\ ValidationIdle /\ AuxIdle

NextFilterRace ==
    \/ \E h \in Handlers : RaceRead(h)
    \/ \E h \in Handlers : RaceWriteArray(h)
    \/ \E h \in Handlers : RaceWriteLen(h)
    \/ RaceListenerRange

SpecFilterRace == InitFilterRace /\ [][NextFilterRace]_vars

\* ------------------------------------------------------------------ claims
CurrentRoot == GetMerkleRoot(leaves)
WindowTracksRoot == validMerkleRoots # <<>> /\ Newest(validMerkleRoots) = CurrentRoot
StartReturned == lastCall = "Start" /\ pc = "idle"
RootAcceptable(m) == ContainsRoot(validMerkleRoots, m.root)

\* The last n distinct values of the sequence o, as a set.
RECURSIVE LastDistinct(_, _)
LastDistinct(o, n) ==
    IF o = <<>> \/ n = 0 THEN {}
    ELSE {Newest(o)} \cup
         LastDistinct(SelectSeq(SubSeq(o, 1, Len(o) - 1), LAMBDA x : x # Newest(o)), n - 1)

\* C1: when Start returns without error, the engine received during the
\* call exactly one insert per member of the group the manager held, in the
\* group's order (on a fresh engine its tree is exactly the constructor's
\* group), and the newest entry of the root window is the engine's root.
C1_BootstrapOrder ==
    (StartReturned /\ ret = "ok") =>
        /\ callInserts = entryGroup
        /\ leaves = entryLeaves \o entryGroup
        /\ (entryGroup # <<>>) => (entryGroup = argGroup)
        /\ (entryGroup # <<>> /\ entryLeaves = <<>>) => (leaves = argGroup)
        /\ WindowTracksRoot

C1_Witness ==
    /\ StartReturned /\ ret = "ok"
    /\ callInserts = <<2, 1>>
    /\ Len(validMerkleRoots) = 3

\* C2: for an index within the group, the constructor returns an error and
\* no manager when group[index] differs from the credential's commitment and
\* a manager when it is equal; either way the engine has seen no insert and
\* the tracker no sync.
C2_ConstructionGate ==
    (lastCall = "New" /\ argIndex < Len(argGroup)) =>
        /\ IF argGroup[argIndex + 1] # argCredential.IDCommitment
           THEN /\ ret = "mismatch" /\ pc = "failed"
                /\ group = <<>>
                /\ identityCredential = NoCredential
                /\ membershipIndex = -1
           ELSE /\ ret = "ok" /\ pc = "idle"
                /\ group = argGroup
                /\ identityCredential = argCredential
                /\ membershipIndex = argIndex
        /\ leaves = <<>> /\ callInserts = <<>>
        /\ validMerkleRoots = <<>> /\ observed = <<>> /\ callSyncs = 0

C2_Witness ==
    /\ lastCall = "New" /\ ret = "mismatch"
    /\ argGroup = <<1, 2>> /\ argIndex = 1 /\ argCredential.IDCommitment = 1

\* C3: the root window holds at most 5 entries, and a root is acceptable
\* exactly when it is among the last 5 distinct roots that Sync observed.
C3_WindowBound ==
    /\ Len(validMerkleRoots) <= 5
    /\ \A r \in KnownRoots \cup {BogusRoot} :
        ContainsRoot(validMerkleRoots, r) <=> r \in LastDistinct(observed, 5)

C3_Witness ==
    /\ Len(observed) = 6
    /\ Len(validMerkleRoots) = 5
    /\ Len(leaves) = 6
    /\ ~ContainsRoot(validMerkleRoots, observed[1])

\* C4: verify is invoked only after the epoch check and then the root check
\* passed; a message whose epoch is out of tolerance or whose root is not
\* acceptable is Invalid with no verify call, and the epoch check comes first.
C4_LocalChecksFirst ==
    /\ \A k \in 1..Len(checks) : checks[k] = <<"epoch", "root", "verify", "rate">>[k]
    /\ (vpc \in {"root", "verify", "rate"}) => EpochInTolerance(msg)
    /\ (vpc \in {"verify", "rate"}) => RootAcceptable(msg)
    /\ (verifyCalls > 0) => (EpochInTolerance(msg) /\ RootAcceptable(msg))
    /\ (vpc = "done" /\ ~EpochInTolerance(msg)) =>
           (result = invalidMessage /\ verifyCalls = 0 /\ checks = <<"epoch">>)
    /\ (vpc = "done" /\ EpochInTolerance(msg) /\ ~RootAcceptable(msg)) =>
           (result = invalidMessage /\ verifyCalls = 0 /\ checks = <<"epoch", "root">>)

C4_Witness ==
    /\ vpc = "done" /\ result = invalidMessage /\ verifyCalls = 0
    /\ ~EpochInTolerance(msg) /\ ~RootAcceptable(msg)
    /\ msg.root # BogusRoot

\* C5: with the gap floor(20 / epoch unit), a proof at epoch distance exactly
\* the gap, past or future, passes the epoch step, and one at distance gap + 1
\* is Invalid without its cryptographic validity being consulted.
C5_EpochBoundary ==
    LET gap == 20 \div EPOCH_UNIT_SECONDS
        distance == AbsDiff(currentEpoch, msg.epoch)
    IN  (Len(checks) >= 1) =>
            /\ (distance = gap) => (vpc # "done" \/ Len(checks) >= 2)
            /\ (distance = gap + 1) =>
                   (vpc = "done" /\ result = invalidMessage /\ verifyOutcome = "none")

C5_Witness ==
    /\ vpc = "done" /\ result = invalidMessage
    /\ msg.epoch = currentEpoch + 3
    /\ RootAcceptable(msg)

\* C6: a validated message gets exactly one of Error, Valid, Invalid, Spam:
\* Invalid on a failed local check, else Error on an engine error, else
\* Invalid on a false proof, else Spam on an exceeded rate, else Valid.
C6_Classification ==
    (vpc = "done") =>
        /\ result \in {validationError, validMessage, invalidMessage, spamMessage}
        /\ result = (IF ~EpochInTolerance(msg) \/ ~RootAcceptable(msg) THEN invalidMessage
                     ELSE IF verifyOutcome = "error" THEN validationError
                     ELSE IF verifyOutcome = "false" THEN invalidMessage
                     ELSE IF rateOutcome = "exceeded" THEN spamMessage
                     ELSE validMessage)
        /\ (result = validMessage) =>
               /\ EpochInTolerance(msg) /\ RootAcceptable(msg)
               /\ verifyOutcome = "true" /\ rateOutcome = "ok"
        /\ (verifyOutcome = "error") => (result # invalidMessage)

C6_Witness ==
    /\ vpc = "done" /\ verifyOutcome = "error" /\ result = validationError
    /\ msg.epoch # currentEpoch

\* C7: when the engine insert of InsertMember fails, the call returns the
\* error at once, makes no Sync call and leaves the root window as it was.
C7_FailedInsert ==
    (lastCall = "InsertMember" /\ fault = "insert") =>
        /\ pc = "idle" /\ ret = "insert_err"
        /\ callSyncs = 0
        /\ validMerkleRoots = entryRoots

C7_Witness ==
    /\ lastCall = "InsertMember" /\ fault = "insert" /\ pc = "idle"
    /\ Len(validMerkleRoots) >= 2

\* C8: when the insert of InsertMember succeeds and the Sync after it fails,
\* the call returns an error, the member stays in the engine, and the window
\* keeps its contents, so its newest entry is not the engine's root.
C8_FailedResync ==
    (lastCall = "InsertMember" /\ fault = "sync") =>
        /\ pc = "idle" /\ ret = "sync_err"
        /\ leaves = Append(entryLeaves, pubkey)
        /\ validMerkleRoots = entryRoots
        /\ ~WindowTracksRoot

C8_Witness ==
    /\ lastCall = "InsertMember" /\ fault = "sync" /\ pc = "idle"
    /\ validMerkleRoots # <<>>
    /\ Newest(validMerkleRoots) = GetMerkleRoot(entryLeaves)

\* C9: a failure of the initial Sync, of a member insert or of a Sync after
\* an insert ends Start at once with that error: the members inserted are a
\* prefix of the group and stay in the engine, and no Sync follows.
C9_StartAborts ==
    (lastCall = "Start" /\ fault # "none") =>
        /\ pc = "idle"
        /\ ret = (IF fault = "insert" THEN "insert_err" ELSE "sync_err")
        /\ Len(callInserts) <= Len(entryGroup)
        /\ callInserts = SubSeq(entryGroup, 1, Len(callInserts))
        /\ (fault = "insert") => (Len(callInserts) < Len(entryGroup))
        /\ callSyncs = Len(callInserts) + 1
        /\ leaves = entryLeaves \o callInserts

C9_Witness ==
    /\ StartReturned /\ fault = "sync"
    /\ Len(entryGroup) = 2 /\ Len(callInserts) = 1
    /\ leaves = entryLeaves \o callInserts

\* C10, as claimed: from the first successful Sync onward the newest entry of
\* the window is the engine's root in every state, and the window holds at
\* most 5 entries.
C10_AsClaimed ==
    (observed # <<>>) => (WindowTracksRoot /\ Len(validMerkleRoots) <= 5)

\* C10, amended: the window never holds more than 5 entries, and its newest
\* entry is the engine's root whenever the engine has accepted no insert
\* since the last successful Sync, in particular whenever Start or
\* InsertMember has returned without error.
C10_RootNewestWhenSynced ==
    /\ Len(validMerkleRoots) <= 5
    /\ (observed # <<>> /\ Newest(observed) = CurrentRoot) => WindowTracksRoot
    /\ (pc = "idle" /\ ret = "ok" /\ lastCall \in {"Start", "InsertMember"}) =>
           WindowTracksRoot

C10_Witness ==
    /\ pc = "idle" /\ ret = "ok" /\ lastCall = "InsertMember"
    /\ Len(validMerkleRoots) = 5
    /\ Len(observed) = 6
    /\ Len(leaves) = 6
    /\ WindowTracksRoot

\* C12: the derived signal is the payload followed by the topic bytes, the
\* empty signal for an absent message; equal (payload, topic) give equal
\* signals whatever the capacity of the payload, a change of the payload alone
\* or of the topic alone changes the signal, and the call leaves the payload
\* and the topic of the message as they were.
BothDerived == spc[1] = "done" /\ spc[2] = "done" /\ ~wm0[1].nil /\ ~wm0[2].nil

C12_SignalIsConcatenation ==
    /\ \A k \in 1..2 : (spc[k] = "done") =>
        /\ signal[k] = (IF wm0[k].nil THEN <<>> ELSE Payload(wm0[k]) \o wm0[k].topic)
        /\ Payload(wm[k]) = Payload(wm0[k])
        /\ wm[k].len = wm0[k].len
        /\ wm[k].topic = wm0[k].topic
        /\ wm[k].nil = wm0[k].nil
    /\ BothDerived =>
        /\ (Payload(wm0[1]) = Payload(wm0[2]) /\ wm0[1].topic = wm0[2].topic)
               => (signal[1] = signal[2])
        /\ (Payload(wm0[1]) # Payload(wm0[2]) /\ wm0[1].topic = wm0[2].topic)
               => (signal[1] # signal[2])
        /\ (Payload(wm0[1]) = Payload(wm0[2]) /\ wm0[1].topic # wm0[2].topic)
               => (signal[1] # signal[2])

C12_Witness ==
    /\ BothDerived
    /\ Payload(wm0[1]) = Payload(wm0[2]) /\ wm0[1].topic = wm0[2].topic
    /\ wm[1].array # wm0[1].array
    /\ Len(wm0[2].array) = wm0[2].len
    /\ signal[1] = signal[2] /\ Len(signal[1]) = 3

\* C13: a constructed manager keeps the credential and the index it was
\* built with through every Start, InsertMember and Stop, and its accessors
\* return them without error.
Constructed == pc \notin {"new", "failed"} /\ ~(lastCall = "New" /\ ret = "panic")

C13_AccessorsConfigured ==
    Constructed =>
        /\ identityCredential = argCredential /\ identityCredential # NoCredential
        /\ membershipIndex = argIndex /\ membershipIndex # -1
        /\ (lastCall = "IdentityCredentials") =>
               (ret = "ok" /\ gotCredential = argCredential)
        /\ (lastCall = "MembershipIndex") => (ret = "ok" /\ gotIndex = argIndex)

C13_Witness ==
    /\ lastCall = "MembershipIndex" /\ ret = "ok" /\ gotIndex = 1
    /\ group = <<>> /\ Len(leaves) = 4
    /\ validMerkleRoots # <<>> /\ ~WindowTracksRoot

\* C14: Start makes one Sync before the first insert and then, member by
\* member, an insert followed by a Sync; a successful Start over N members
\* makes N + 1 Syncs, and the roots of the bootstrap reach the tracker in the
\* order the engine produced them.
C14_StartOrder ==
    (lastCall = "Start") =>
        /\ \A k \in 1..Len(callTrace) :
               callTrace[k] = (IF k % 2 = 1 THEN "sync" ELSE "insert")
        /\ (pc = "idle" /\ ret = "ok") =>
               LET N == Len(entryGroup) IN
               /\ callSyncs = N + 1
               /\ Len(callTrace) = 2 * N + 1
               /\ Len(observed) >= N + 1
               /\ \A k \in 0..N :
                      observed[Len(observed) - N + k] =
                          GetMerkleRoot(entryLeaves \o SubSeq(entryGroup, 1, k))

C14_Witness ==
    /\ StartReturned /\ ret = "ok"
    /\ callTrace = <<"sync", "insert", "sync", "insert", "sync">>
    /\ entryLeaves # <<>>

\* C15: the manager drops its group exactly when a Start has completed with
\* every insert and Sync successful and keeps it otherwise; a Start after a
\* successful Start inserts nothing, and a Start after a failed Start begins
\* again at the first member of the group.
C15_GroupKept ==
    Constructed =>
        /\ (StartReturned /\ ret = "ok") => (group = <<>>)
        /\ (lastCall = "Start" /\ ~(pc = "idle" /\ ret = "ok")) =>
               (group = entryGroup)
        /\ (lastCall = "Start" /\ entryGroup = <<>>) => (callInserts = <<>>)
        /\ (lastCall = "Start" /\ entryGroup # <<>>) =>
               /\ entryGroup = argGroup
               /\ Len(callInserts) <= Len(argGroup)
               /\ callInserts = SubSeq(argGroup, 1, Len(callInserts))
               /\ leaves = entryLeaves \o callInserts
        /\ group \in {argGroup, <<>>}

C15_DroppedOnlyBySuccess ==
    [][(pc # "new" /\ group' # group) =>
          (lastCall = "Start" /\ pc' = "idle" /\ ret' = "ok" /\ group' = <<>>)]_vars

C15_GroupDropped == []C15_GroupKept /\ C15_DroppedOnlyBySuccess

C15_Witness ==
    /\ StartReturned /\ ret = "ok" /\ group = <<>>
    /\ entryLeaves = <<1>> /\ leaves = <<1, 1, 2>>

\* C16: the constructor returns a manager or an error for every group and
\* every claimed index, also for an index at or beyond the group's length.
C16_AsClaimed ==
    (lastCall = "New") => (ret \in {"ok", "mismatch"} /\ pc # "panic")

\* C17: whenever InsertMember is invoked the manager's engine and tracker are
\* set, so the call inserts and syncs or returns an error.
C17_AsClaimed ==
    (lastCall = "InsertMember") => (rlnSet /\ pc # "panic")

\* C18, as claimed: two messages whose (payload, topic) pairs differ in any
\* way derive different signals.
C18_AsClaimed ==
    (BothDerived /\ <<Payload(wm0[1]), wm0[1].topic>> # <<Payload(wm0[2]), wm0[2].topic>>)
        => (signal[1] # signal[2])

\* C18, amended: two messages derive different signals when they differ in
\* the payload alone, in the topic alone, or in any way while their payloads
\* have the same length; signals are equal exactly when the concatenations are.
C18_SeparatesAlignedMessages ==
    BothDerived =>
        LET p1 == Payload(wm0[1])  p2 == Payload(wm0[2])
            t1 == wm0[1].topic     t2 == wm0[2].topic
        IN /\ ((p1 = p2) # (t1 = t2)) => (signal[1] # signal[2])
           /\ (Len(p1) = Len(p2) /\ <<p1, t1>> # <<p2, t2>>) => (signal[1] # signal[2])
           /\ (signal[1] = signal[2]) <=> (p1 \o t1 = p2 \o t2)

C18_Witness ==
    /\ BothDerived
    /\ Payload(wm0[1]) = Payload(wm0[2]) /\ Len(Payload(wm0[1])) = 2
    /\ wm0[1].topic = <<0>> /\ wm0[2].topic = <<0, 1>>
    /\ signal[1] # signal[2]

\* C19: the id Subscribe returns is the RequestId of the FilterRPC it built
\* for the peer, and a filter stored under the returned id is selected by
\* key when a push with that RequestId is handed to Notify.
C19_AsClaimed ==
    /\ sentRPC # NoRPC => subRet = sentRPC.RequestId
    /\ answered # NoId => answered \in selected

\* C20: the pushes of a message follow the order of the subscriber list and
\* go to matching subscribers only; when a push fails at a subscriber,
\* handle is over, no later subscriber was or will be pushed the message, and
\* the listener is back at MsgC for the next message; when none fails, every
\* match of every subscriber was pushed.
C20_FailureEndsHandling ==
    /\ \A j, k \in 1..Len(pushes) : j < k => pushes[j].sub <= pushes[k].sub
    /\ \A k \in 1..Len(pushes) :
        /\ pushes[k].sub \in 1..snapLen
        /\ MatchingFilters(subscribers[pushes[k].sub], envelope) # {}
        /\ pushes[k].RequestId = subscribers[pushes[k].sub].requestId
    /\ failedAt # 0 =>
        /\ lpc = "recv"
        /\ \A k \in 1..Len(pushes) : pushes[k].sub <= failedAt
    /\ (lpc = "recv" /\ handleRet # "none" /\ failedAt = 0) =>
        \A n \in 1..snapLen :
            Cardinality({k \in 1..Len(pushes) : pushes[k].sub = n})
                = Cardinality(MatchingFilters(subscribers[n], envelope))

\* The message before this one failed, the listener took this one, and its
\* push failed at a subscriber that has a matching subscriber after it.
C20_Witness ==
    /\ prevFailed
    /\ failedAt # 0
    /\ failedAt < snapLen
    /\ MatchingFilters(subscribers[failedAt + 1], envelope) # {}

\* C11: while callers of InsertMember and readers of the window run side by
\* side, no two callers are inside Sync at once, no reader is inside
\* ContainsRoot while a caller is inside Sync, and every scan saw the window
\* as the last finished Sync left it, never more than the capacity.
C11_ExclusiveSync ==
    /\ Cardinality({w \in Writers : InSync(w)}) <= 1
    /\ \A r \in Readers : Reading(r) => \A w \in Writers : ~InSync(w)
    /\ \A r \in Readers : rdpc[r] = "scanned" =>
        /\ seen[r] = seenCommitted[r]
        /\ Len(seen[r]) <= acceptableRootWindowSize

\* Both readers are inside ContainsRoot with a full window that has evicted
\* its oldest root, one has scanned it, and a caller of InsertMember waits
\* for the lock with its member in the engine.
C11_Witness ==
    /\ \A r \in Readers : Reading(r)
    /\ \E r \in Readers : rdpc[r] = "scanned" /\ Len(seen[r]) = acceptableRootWindowSize
                            /\ seen[r][1] # GetMerkleRoot(<<>>)
    /\ \E w \in Writers : wpc[w] = "inserted"

\* C21: when the onRequest handlers have finished k subscribe requests, the
\* subscriber list has k entries, and what the listener's range read is a
\* list whose length is the length of its array.
C21_AsClaimed ==
    /\ (\A h \in Handlers : hpc[h] = "idle") => Len(subscribers) = handled
    /\ lobs.len = Len(lobs.arr)

====
